---- MODULE Spec2Model ----
(***************************************************************************)
(* A model of vors-ting's feedback loop:                                   *)
(*   - BaseAgent._call_llm, the rate-limit retry controller                *)
(*     (src/src/vors_ting/agents/base.py);                                 *)
(*   - Orchestrator.run and the converge-mode round loop, the convergence  *)
(*     check, the round/interaction log and _auto_save                     *)
(*     (src/src/vors_ting/orchestration/orchestrator.py).                  *)
(* Spec and LiveSpec are whole runs with up to MaxAgents agents, TeamSpec   *)
(* is one failure-free round with up to MaxTeam agents, CheckSpec is       *)
(* _check_convergence called on its own, HintSpec is _get_retry_after      *)
(* called on its own, LoggerSpec and SanitizeSpec are calls of a           *)
(* StreamingInteractionLogger (src/src/vors_ting/core/logging.py).         *)
(* ThreadSpec is _get_embedding_model called by concurrent threads.        *)
(* Delays are in milliseconds, header values and the wait hint in         *)
(* seconds, jitter and the similarity threshold in hundredths.  In a run   *)
(* agent names are the agents' positions in config.agents.                 *)
(***************************************************************************)
EXTENDS Integers, Sequences, FiniteSets, TLC

VARIABLES
    config,             \* Orchestrator.config: mode, rounds, agents, threshold
    agents,             \* Orchestrator.agents: the roles of the agents built so far
    round_history,      \* Orchestrator.round_history
    current_round,      \* Orchestrator.current_round
    pc,                 \* where run() stands
    pos,                \* loop position of the running phase: artifact a, agent ordinal k
    initial_artifacts,  \* local of _run_converge_mode (and the list _initial_generation builds)
    reviews,            \* local of _run_converge_mode (and the list _review_phase builds)
    refined_artifacts,  \* local of _run_converge_mode (and the list _refine_phase builds)
    llm,                \* the frame of the running _call_llm invocation
    result,             \* what _run_converge_mode returned
    exc,                \* the exception propagating out of, or raised by, run()
    checks,             \* what each call of _check_convergence returned, in order
    saves,              \* how many times _auto_save has run
    disk,               \* what _auto_save wrote
    embedding_model,    \* the module's _embedding_model: constructions and encode calls
    state_dir,          \* what save_state wrote to the directory it was given
    stream,             \* a StreamingInteractionLogger: its clock, calls and output tree
    threads             \* the threads calling _get_embedding_model: position and locals

vars == << config, agents, round_history, current_round, pc, pos,
           initial_artifacts, reviews, refined_artifacts, llm, result, exc,
           checks, saves, disk, embedding_model, state_dir, stream,
                    threads >>

(***************************************************************************)
(* Bounds of the model.                                                    *)
(***************************************************************************)
MaxRounds == 2
MaxAgents == 2
MaxLen == 2
MaxTeam == 4

(***************************************************************************)
(* Program constants.                                                      *)
(***************************************************************************)
MAX_RETRIES == 5
BASE_DELAY == 1000
MAX_DELAY == 60000
EXPONENTIAL_BASE == 2
MIN_UNIX_TS == 1000000000
DEFAULT_THRESHOLD == 95

\* time.time() at the moment a rate-limit failure is handled (seconds).
Now == 1700000000

Min(a, b) == IF a <= b THEN a ELSE b
Max(a, b) == IF a >= b THEN a ELSE b

RECURSIVE Pow(_, _)
Pow(b, n) == IF n = 0 THEN 1 ELSE b * Pow(b, n - 1)

(***************************************************************************)
(* Inputs: configurations, model responses, failures.                      *)
(***************************************************************************)
KnownRoles == {"creator", "reviewer", "curator"}
Roles == KnownRoles \cup {"editor"}
Modes == {"converge", "diverge"}

AgentLists == UNION {[1..n -> Roles] : n \in 1..MaxAgents}

\* A similarity threshold is h/100 + e * 2^-23: hundredths, and a number of
\* float32 rounding errors beside them.
Threshold(h, e) == [h |-> h, e |-> e]

Configs == [mode : Modes, rounds : 1..MaxRounds, agents : AgentLists,
            similarity_threshold : {Threshold(DEFAULT_THRESHOLD, 0)}]

\* The task text, the texts a generation or refinement call can return, and
\* the text a review call returns.
Task == 0
Texts == {1, 2}
Feedbacks == {9}

\* random.uniform(0, 0.2), in hundredths.
Jitters == {0, 10, 20}

\* A response header value: absent, not a number, or a number of seconds.
Absent == [kind |-> "absent", val |-> 0]
NonNumeric == [kind |-> "text", val |-> 0]
Num(n) == [kind |-> "num", val |-> n]

NoHeaders == [retry_after |-> Absent, reset |-> Absent]

\* The headers a rate-limit failure can carry.
RateLimitHeaders ==
    { NoHeaders,
      [retry_after |-> Num(90), reset |-> Absent],
      [retry_after |-> Num(-5), reset |-> Num(5)],
      [retry_after |-> NonNumeric, reset |-> Num(5)],
      [retry_after |-> Absent, reset |-> Num(Now - 10)] }

NoExc == [type |-> "none", headers |-> NoHeaders, attempt |-> -1]
RateLimitError(h, n) == [type |-> "RateLimitError", headers |-> h, attempt |-> n]
CallError(n) == [type |-> "APIError", headers |-> NoHeaders, attempt |-> n]
SleepValueError(n) == [type |-> "ValueError", headers |-> NoHeaders, attempt |-> n]
UnknownRoleError == [type |-> "ValueError", headers |-> NoHeaders, attempt |-> -1]
NotImplemented == [type |-> "NotImplementedError", headers |-> NoHeaders, attempt |-> -1]

(***************************************************************************)
(* BaseAgent._get_retry_after: the wait the provider suggests, if any.     *)
(***************************************************************************)
NoHint == [some |-> FALSE, val |-> 0]
Hint(seconds) == [some |-> TRUE, val |-> seconds]

\* Mutant: the wait until a reset time in the past is not raised to 0.
GetRetryAfterUnclamped(e) ==
    LET ra == e.headers.retry_after
        rs == e.headers.reset
    IN  IF ra.kind = "num" THEN Hint(ra.val)
        ELSE IF rs.kind = "num"
             THEN IF rs.val > MIN_UNIX_TS
                  THEN Hint(rs.val - Now)
                  ELSE Hint(rs.val)
             ELSE NoHint

_get_retry_after(e) ==
    LET ra == e.headers.retry_after
        rs == e.headers.reset
    IN  IF ra.kind = "num" THEN Hint(ra.val)
        ELSE IF rs.kind = "num"
             THEN IF rs.val > MIN_UNIX_TS
                  THEN Hint(Max(0, rs.val - Now))
                  ELSE Hint(rs.val)
             ELSE NoHint

\* Mutants of the delay computation: a product in place of the power, and the
\* jitter applied to the provider's hint as well.
BackoffDelayLinear(attempt) == Min(BASE_DELAY * EXPONENTIAL_BASE * attempt, MAX_DELAY)

DelayJitterAlways(e, attempt, j) ==
    LET retry_after == _get_retry_after(e)
        base == IF retry_after.some
                THEN Min(1000 * retry_after.val, MAX_DELAY)
                ELSE Min(BASE_DELAY * Pow(EXPONENTIAL_BASE, attempt), MAX_DELAY)
    IN  (base * (100 + j)) \div 100

\* Mutant: the exponential delay is not held to MAX_DELAY.
DelayUncapped(e, attempt, j) ==
    LET retry_after == _get_retry_after(e)
    IN  IF retry_after.some
        THEN Min(1000 * retry_after.val, MAX_DELAY)
        ELSE (BASE_DELAY * Pow(EXPONENTIAL_BASE, attempt) * (100 + j)) \div 100

\* The delay _call_llm computes after a rate-limited attempt, jitter j.
BackoffDelay(attempt) == Min(BASE_DELAY * Pow(EXPONENTIAL_BASE, attempt), MAX_DELAY)

Delay(e, attempt, j) ==
    LET retry_after == _get_retry_after(e)
    IN  IF retry_after.some
        THEN Min(1000 * retry_after.val, MAX_DELAY)
        ELSE (BackoffDelay(attempt) * (100 + j)) \div 100

(***************************************************************************)
(* The _call_llm frame.                                                    *)
(*   state    idle | calling (a completion() call is in flight) |          *)
(*            sleeping (in time.sleep) | returned | raised                 *)
(*   attempt  the loop variable                                            *)
(*   calls    completion() calls issued by this invocation                 *)
(*   sleeps   time.sleep calls that this invocation completed or is in     *)
(*   delay, retry_after   the argument of the running (or refused) sleep   *)
(*            and the hint it was computed from                            *)
(*   last_exception   the local of that name, while the invocation runs    *)
(*   response the text the invocation returned                             *)
(***************************************************************************)
IdleFrame ==
    [state |-> "idle", attempt |-> 0, calls |-> 0, sleeps |-> 0, delay |-> 0,
     retry_after |-> NoHint, last_exception |-> NoExc, response |-> Task]

FirstAttempt == 0

NewFrame == [IdleFrame EXCEPT !.state = "calling", !.attempt = FirstAttempt, !.calls = 1]

\* The frame once the invocation is over (it returned, or the failure of
\* completion() left it): its locals are gone; the counts of what it did stay
\* for the record.
Left(frame, how, text) ==
    [frame EXCEPT !.state = how, !.response = text, !.last_exception = NoExc]

\* Mutants of the retry bound: one attempt too many, one too few.
RetriesExhaustedLate(attempt) == attempt >= MAX_RETRIES
RetriesExhaustedEarly(attempt) == attempt >= MAX_RETRIES - 2

\* Whether the rate-limited attempt was the last one (the loop breaks).
RetriesExhausted(attempt) == attempt >= MAX_RETRIES - 1

\* What completion() can raise on attempt n, and the except clause that
\* catches it.
CompletionFailures(n) ==
    {RateLimitError(h, n) : h \in RateLimitHeaders} \cup {CallError(n)}

\* Mutant: the retry clause catches every exception.
AnyException(e) == e.type # "none"

IsRateLimitError(e) == e.type = "RateLimitError"

\* What a successful completion() call can return to the running phase.
Responses == IF pc = "review" THEN Feedbacks ELSE Texts

(***************************************************************************)
(* State after Orchestrator(config): nothing has run.                      *)
(***************************************************************************)
NoResult == [status |-> "none", artifacts |-> << >>]
NoDisk == [written |-> FALSE, rounds_completed |-> 0, round_history |-> << >>,
           artifact_files |-> << >>, final_status |-> "none"]

\* save_state has not been called; no StreamingInteractionLogger call was made.
NoStateDir == [written |-> FALSE, round_history |-> << >>, artifact_files |-> << >>]
NoStream == [clock |-> 0, calls |-> << >>, tree |-> {}]

\* _embedding_model is None: nothing constructed, nothing encoded.  The
\* instances constructed are numbered from 1; instance 0 is None.
NoModel == [constructed |-> 0, encodes |-> 0, instance |-> 0]

\* No thread calls _get_embedding_model.
NoThreads == << >>
StartPos == [a |-> 1, k |-> 1]

Init ==
    /\ config \in Configs
    /\ agents = << >>
    /\ round_history = << >>
    /\ current_round = 0
    /\ pc = "start"
    /\ pos = StartPos
    /\ initial_artifacts = << >>
    /\ reviews = << >>
    /\ refined_artifacts = << >>
    /\ llm = IdleFrame
    /\ result = NoResult
    /\ exc = NoExc
    /\ checks = << >>
    /\ saves = 0
    /\ disk = NoDisk
    /\ embedding_model = NoModel
    /\ state_dir = NoStateDir
    /\ stream = NoStream
    /\ threads = NoThreads

orch_vars == << config, agents, round_history, current_round, pos,
                initial_artifacts, reviews, refined_artifacts, result,
                checks, saves, disk, embedding_model, state_dir, stream,
                    threads >>

(***************************************************************************)
(* BaseAgent._call_llm, one step per completion() outcome.                 *)
(***************************************************************************)
\* completion() returns: the invocation returns the text at once.
LlmSuccess ==
    /\ llm.state = "calling"
    /\ \E t \in Responses :
          llm' = Left(llm, "returned", t)
    /\ UNCHANGED << orch_vars, pc, exc >>

\* Mutant: the caller swallows the exception and the loop goes on.
PropagateSwallowed(e) ==
    /\ exc' = e
    /\ pc' = pc

\* An exception leaves _call_llm and every frame up to run()'s try.
Propagate(e) ==
    /\ exc' = e
    /\ pc' = "except"

\* completion() raises.  A RateLimitError is kept as last_exception; the loop
\* breaks and re-raises it when the attempts are used up, else the delay is
\* computed and slept (time.sleep raises ValueError on a negative argument).
\* Any other exception is re-raised at once.
LlmFails ==
    /\ llm.state = "calling"
    /\ \E e \in CompletionFailures(llm.attempt), j \in Jitters :
          IF IsRateLimitError(e)
          THEN LET d == Delay(e, llm.attempt, j)
               IN  IF RetriesExhausted(llm.attempt)
                   THEN /\ llm' = Left(llm, "raised", llm.response)
                        /\ Propagate(e)
                   ELSE IF d < 0
                   THEN /\ llm' = [llm EXCEPT !.state = "raised",
                                              !.last_exception = e,
                                              !.retry_after = _get_retry_after(e),
                                              !.delay = d]
                        /\ Propagate(SleepValueError(llm.attempt))
                   ELSE /\ llm' = [llm EXCEPT !.state = "sleeping",
                                              !.last_exception = e,
                                              !.retry_after = _get_retry_after(e),
                                              !.delay = d,
                                              !.sleeps = @ + 1]
                        /\ UNCHANGED << pc, exc >>
          ELSE /\ llm' = Left(llm, "raised", llm.response)
               /\ Propagate(e)
    /\ UNCHANGED orch_vars

\* time.sleep returns: the loop issues the next attempt.
SleepEnds ==
    /\ llm.state = "sleeping"
    /\ llm' = [llm EXCEPT !.state = "calling", !.attempt = @ + 1,
                          !.calls = @ + 1, !.delay = 0, !.retry_after = NoHint]
    /\ UNCHANGED << orch_vars, pc, exc >>

(***************************************************************************)
(* Helpers of the orchestrator.                                            *)
(***************************************************************************)
Last(s) == s[Len(s)]

\* The positions of the agents of a role, in agent-list order: the agents a
\* "for agent in self.agents: if agent.role == role" loop visits.
IndicesOf(ags, role) ==
    LET S == {i \in 1..Len(ags) : ags[i] = role}
    IN  [n \in 1..Cardinality(S) |->
            CHOOSE i \in S : Cardinality({j \in S : j < i}) = n - 1]

Creators == IndicesOf(agents, "creator")
Reviewers == IndicesOf(agents, "reviewer")

\* list.index: the first position holding x, 0-based.
IndexOf(s, x) == (CHOOSE i \in 1..Len(s) : s[i] = x /\ \A j \in 1..(i - 1) : s[j] # x) - 1

\* Mutant: an agent of an unknown role is skipped.
InitializeAgentsSkipUnknown(cfg_agents) ==
    LET IsKnown(role) == role \in KnownRoles
    IN  [agents |-> SelectSeq(cfg_agents, IsKnown), ok |-> TRUE]

\* initialize_agents: the agents built, and whether every role was known.
InitializeAgents(cfg_agents) ==
    LET bad == {i \in 1..Len(cfg_agents) : cfg_agents[i] \notin KnownRoles}
        n == IF bad = {} THEN Len(cfg_agents)
             ELSE (CHOOSE i \in bad : \A j \in bad : i <= j) - 1
    IN  [agents |-> SubSeq(cfg_agents, 1, n), ok |-> bad = {}]

\* Mutant: the record of a converged round lacks its flag.
RoundRecordNoFlag(round_num, arts, revs, conv) ==
    [round |-> round_num, artifacts |-> arts, reviews |-> revs,
     converged |-> FALSE, interactions |-> << >>]

\* _log_round: a round record is appended.
RoundRecord(round_num, arts, revs, conv) ==
    [round |-> round_num, artifacts |-> arts, reviews |-> revs,
     converged |-> conv, interactions |-> << >>]

\* Mutant: rounds are numbered from 1.
LogRoundOffByOne(history, round_num, arts, revs, conv) ==
    Append(history, RoundRecord(round_num + 1, arts, revs, conv))

_log_round(history, round_num, arts, revs, conv) ==
    Append(history, RoundRecord(round_num, arts, revs, conv))

\* _log_interaction: the interaction is appended to the last round record,
\* when there is one.
Interaction(round_num, name, role, prompt, response, phase, index, revs) ==
    [round |-> round_num, agent_name |-> name, agent_role |-> role,
     prompt |-> prompt, response |-> response, phase |-> phase,
     artifact_index |-> index, reviews |-> revs]

_log_interaction(history, interaction) ==
    IF history # << >>
    THEN [history EXCEPT ![Len(history)].interactions = Append(@, interaction)]
    ELSE history

\* agent.review: the structured review of artifact a (0-based) by agent `by`.
Review(text, a, by) == [feedback |-> text, about |-> a, by |-> by]

\* reviews[j] for j in range(i, len(reviews), len(artifacts)), i 0-based.
ArtifactReviews(revs, i, n) ==
    LET J == {j \in 0..(Len(revs) - 1) : j >= i /\ (j - i) % n = 0}
    IN  [m \in 1..Cardinality(J) |->
            revs[(CHOOSE j \in J : Cardinality({x \in J : x < j}) = m - 1) + 1]]

(***************************************************************************)
(* _check_convergence.  The embedding of a text is a vector of integers.   *)
(* The cosine dot/(|u||v|) is computed in float32 and so carries a         *)
(* rounding r of the quotient, in units of 2^-23 (the error when the dot   *)
(* product and both squared norms are the same float32 number): with a     *)
(* squared norm of 6 the norm is 2.4494898, its square 6.0000005 and the   *)
(* self-similarity 0.99999994; with a squared norm of 2 it is 1.0000001.   *)
(* A zero norm makes the quotient 0/0 = nan, and nan < threshold is false. *)
(***************************************************************************)
Embed(t) == << t \div 2, t % 2 >>
Dot(u, v) == u[1] * v[1] + u[2] * v[2]

\* The rounding of one float32 quotient, in units of 2^-23.
Rounding == {-1, 0, 1}

Sgn(x) == IF x < 0 THEN -1 ELSE IF x > 0 THEN 1 ELSE 0

\* The sign of dot/(|u||v|) - h/100, the norms not zero, without taking roots.
CompareCosine(u, v, h) ==
    LET d == Dot(u, v)
        nn == Dot(u, u) * Dot(v, v)
    IN  IF h >= 0
        THEN IF d < 0 THEN -1 ELSE Sgn(10000 * d * d - h * h * nn)
        ELSE IF d >= 0 THEN 1 ELSE Sgn(h * h * nn - 10000 * d * d)

\* Mutant: the test is similarity <= threshold.
SimilarityNotAbove(u, v, th, r) ==
    IF Dot(u, u) * Dot(v, v) = 0 THEN FALSE
    ELSE LET c == CompareCosine(u, v, th.h)
         IN  c < 0 \/ (c = 0 /\ r <= th.e)

\* similarity < threshold, the quotient rounded by r.
SimilarityBelow(u, v, th, r) ==
    IF Dot(u, u) * Dot(v, v) = 0 THEN FALSE
    ELSE LET c == CompareCosine(u, v, th.h)
         IN  c < 0 \/ (c = 0 /\ r < th.e)

\* Mutant: the length test is missing and the pairs zip() yields are compared.
CheckConvergenceNoLengthTest(old_artifacts, new_artifacts, r) ==
    \A i \in 1..Min(Len(old_artifacts), Len(new_artifacts)) :
        ~SimilarityBelow(Embed(old_artifacts[i]), Embed(new_artifacts[i]),
                         config.similarity_threshold, r[i])

\* Mutant: two empty lists have not converged.
CheckConvergenceEmptyFalse(old_artifacts, new_artifacts, r) ==
    IF Len(old_artifacts) # Len(new_artifacts) THEN FALSE
    ELSE IF old_artifacts = << >> THEN FALSE
    ELSE \A i \in 1..Len(old_artifacts) :
            ~SimilarityBelow(Embed(old_artifacts[i]), Embed(new_artifacts[i]),
                             config.similarity_threshold, r[i])

\* r[i] is the rounding of pair i's quotient.
_check_convergence(old_artifacts, new_artifacts, r) ==
    IF Len(old_artifacts) # Len(new_artifacts) THEN FALSE
    ELSE IF old_artifacts = << >> THEN TRUE
    ELSE \A i \in 1..Len(old_artifacts) :
            ~SimilarityBelow(Embed(old_artifacts[i]), Embed(new_artifacts[i]),
                             config.similarity_threshold, r[i])

\* The roundings one call of _check_convergence can meet.
Roundings(old_artifacts) == [1..Len(old_artifacts) -> Rounding]

\* Mutant: the embedding model is fetched before the early returns.
EncodedEagerly(model, old_artifacts, new_artifacts) ==
    [constructed |-> IF model.instance = 0 THEN model.constructed + 1
                     ELSE model.constructed,
     encodes |-> IF Len(old_artifacts) # Len(new_artifacts) \/ old_artifacts = << >>
                 THEN model.encodes ELSE model.encodes + 2,
     instance |-> IF model.instance = 0 THEN model.constructed + 1
                  ELSE model.instance]

\* Mutant: a SentenceTransformer is constructed at every call.
GetEmbeddingModelEachCall(model) ==
    [model EXCEPT !.constructed = @ + 1, !.instance = model.constructed + 1]

\* _get_embedding_model: the module's model, constructed if there is none.
_get_embedding_model(model) ==
    IF model.instance = 0
    THEN [model EXCEPT !.constructed = @ + 1, !.instance = model.constructed + 1]
    ELSE model

\* What _check_convergence does to the embedding model: nothing on the two
\* early returns; else _get_embedding_model is called and both lists are
\* encoded.
Encoded(model, old_artifacts, new_artifacts) ==
    IF Len(old_artifacts) # Len(new_artifacts) \/ old_artifacts = << >>
    THEN model
    ELSE [_get_embedding_model(model) EXCEPT !.encodes = @ + 2]

\* Mutant: the artifact files are those of the first round record.
AutoSavedFirstRecord ==
    [written |-> TRUE,
     rounds_completed |-> current_round,
     round_history |-> round_history,
     artifact_files |-> IF round_history # << >> THEN round_history[1].artifacts
                        ELSE << >>,
     final_status |-> IF round_history = << >> THEN "none"
                      ELSE IF Last(round_history).converged THEN "Converged"
                      ELSE "Max rounds reached"]

\* _auto_save: run_history.json, the artifact files and summary.txt.
AutoSaved ==
    [written |-> TRUE,
     rounds_completed |-> current_round,
     round_history |-> round_history,
     artifact_files |-> IF round_history # << >> THEN Last(round_history).artifacts
                        ELSE << >>,
     final_status |-> IF round_history = << >> THEN "none"
                      ELSE IF Last(round_history).converged THEN "Converged"
                      ELSE "Max rounds reached"]

_auto_save ==
    /\ disk' = AutoSaved
    /\ saves' = saves + 1

(***************************************************************************)
(* Orchestrator.run and _run_converge_mode.  pc is                         *)
(*   start     run() has not been called                                   *)
(*   generate, review, refine   inside that phase's loop                   *)
(*   else      _run_converge_mode returned; run() is at its else clause    *)
(*   except    an exception reached run()'s except clause                  *)
(*   done      run() returned result                                       *)
(*   raised    run() re-raised exc                                         *)
(***************************************************************************)
llm_idle == llm.state = "idle"
llm_returned == llm.state = "returned"

\* Mutants of the round bound: one round too many, one too few.
IsLastRoundLate(r) == r > config.rounds
IsLastRoundEarly(r) == r >= config.rounds - 1

\* Whether round r is the last of range(1, config.rounds + 1).
IsLastRound(r) == r >= config.rounds

\* Mutant: the agents are initialised before the mode is dispatched.
RunInitializesFirst ==
    /\ pc = "start"
    /\ LET built == InitializeAgents(config.agents)
       IN  /\ agents' = built.agents
           /\ IF ~built.ok
              THEN pc' = "except" /\ exc' = UnknownRoleError
              ELSE IF config.mode = "converge"
              THEN pc' = "generate" /\ exc' = exc
              ELSE pc' = "except" /\ exc' = NotImplemented
    /\ UNCHANGED << config, round_history, current_round, pos, initial_artifacts,
                    reviews, refined_artifacts, llm, result, checks, saves, disk,
                    embedding_model, state_dir, stream,
                    threads >>

\* run() is called: the mode is dispatched and, in converge mode, the agents
\* are initialised.
Run ==
    /\ pc = "start"
    /\ IF config.mode = "converge"
       THEN LET built == InitializeAgents(config.agents)
            IN  /\ agents' = built.agents
                /\ pc' = IF built.ok THEN "generate" ELSE "except"
                /\ exc' = IF built.ok THEN exc ELSE UnknownRoleError
       ELSE /\ agents' = agents
            /\ pc' = "except"
            /\ exc' = NotImplemented
    /\ UNCHANGED << config, round_history, current_round, pos, initial_artifacts,
                    reviews, refined_artifacts, llm, result, checks, saves, disk,
                    embedding_model, state_dir, stream,
                    threads >>

\* _initial_generation: the next creator's generate() calls the model.
GenerateCall ==
    /\ pc = "generate"
    /\ llm_idle
    /\ pos.k <= Len(Creators)
    /\ llm' = NewFrame
    /\ UNCHANGED << orch_vars, pc, exc >>

\* generate() returned: the artifact is appended and the interaction logged.
GenerateReturn ==
    /\ pc = "generate"
    /\ llm_returned
    /\ initial_artifacts' = Append(initial_artifacts, llm.response)
    /\ round_history' = _log_interaction(round_history,
            Interaction(0, Creators[pos.k], "creator", Task, llm.response,
                        "initial", -1, << >>))
    /\ pos' = [pos EXCEPT !.k = @ + 1]
    /\ llm' = IdleFrame
    /\ UNCHANGED << config, agents, current_round, pc, reviews, refined_artifacts,
                    result, exc, checks, saves, disk,
                    embedding_model, state_dir, stream,
                    threads >>

\* _initial_generation returned: round 0 is logged and round 1 begins.
GenerateDone ==
    /\ pc = "generate"
    /\ llm_idle
    /\ pos.k > Len(Creators)
    /\ round_history' = _log_round(round_history, 0, initial_artifacts, << >>, FALSE)
    /\ IF 1 <= config.rounds
       THEN /\ current_round' = 1
            /\ pc' = "review"
            /\ result' = result
       ELSE /\ current_round' = current_round
            /\ pc' = "else"
            /\ result' = [status |-> "max_rounds_reached",
                          artifacts |-> initial_artifacts]
    /\ pos' = StartPos
    /\ reviews' = << >>
    /\ UNCHANGED << config, agents, initial_artifacts, refined_artifacts, llm,
                    exc, checks, saves, disk, embedding_model, state_dir, stream,
                    threads >>

\* Mutant: the loops are nested the other way round, agents outside.
NextPairAgentMajor(p, na, nr) ==
    IF p.a < na THEN [p EXCEPT !.a = @ + 1]
    ELSE IF p.k < nr THEN [a |-> 1, k |-> p.k + 1]
    ELSE [a |-> na + 1, k |-> 1]

\* "for artifact in artifacts: for agent in self.agents: if reviewer": the pair
\* after artifact p.a and reviewer p.k, of na artifacts and nr reviewers.
NextPair(p, na, nr) ==
    IF p.k < nr THEN [p EXCEPT !.k = @ + 1]
    ELSE [a |-> p.a + 1, k |-> 1]

\* _review_phase: the next (artifact, reviewer) pair's review() calls the model.
ReviewCall ==
    /\ pc = "review"
    /\ llm_idle
    /\ pos.a <= Len(initial_artifacts)
    /\ pos.k <= Len(Reviewers)
    /\ llm' = NewFrame
    /\ UNCHANGED << orch_vars, pc, exc >>

\* review() returned: the review is appended and the interaction logged.
ReviewReturn ==
    /\ pc = "review"
    /\ llm_returned
    /\ reviews' = Append(reviews, Review(llm.response, pos.a - 1, Reviewers[pos.k]))
    /\ round_history' = _log_interaction(round_history,
            Interaction(current_round, Reviewers[pos.k], "reviewer",
                        initial_artifacts[pos.a], llm.response, "review",
                        IndexOf(initial_artifacts, initial_artifacts[pos.a]), << >>))
    /\ pos' = NextPair(pos, Len(initial_artifacts), Len(Reviewers))
    /\ llm' = IdleFrame
    /\ UNCHANGED << config, agents, current_round, pc, initial_artifacts,
                    refined_artifacts, result, exc, checks, saves, disk,
                    embedding_model, state_dir, stream,
                    threads >>

\* Mutant: the refine phase begins while reviews are still to be made.
ReviewDoneEarly ==
    /\ pc = "review"
    /\ llm_idle
    /\ pc' = "refine"
    /\ pos' = StartPos
    /\ refined_artifacts' = << >>
    /\ UNCHANGED << config, agents, round_history, current_round, initial_artifacts,
                    reviews, llm, result, exc, checks, saves, disk,
                    embedding_model, state_dir, stream,
                    threads >>

\* _review_phase returned: the refine phase begins.
ReviewDone ==
    /\ pc = "review"
    /\ llm_idle
    /\ (pos.a > Len(initial_artifacts) \/ Len(Reviewers) = 0)
    /\ pc' = "refine"
    /\ pos' = StartPos
    /\ refined_artifacts' = << >>
    /\ UNCHANGED << config, agents, round_history, current_round, initial_artifacts,
                    reviews, llm, result, exc, checks, saves, disk,
                    embedding_model, state_dir, stream,
                    threads >>

\* _refine_phase: the first creator's refine() calls the model for the next
\* artifact.
RefineCall ==
    /\ pc = "refine"
    /\ llm_idle
    /\ pos.a <= Len(initial_artifacts)
    /\ Len(Creators) >= 1
    /\ llm' = NewFrame
    /\ UNCHANGED << orch_vars, pc, exc >>

\* Mutant: the last creator of the agent list refines.
RefineReturnLastCreator ==
    /\ pc = "refine"
    /\ llm_returned
    /\ refined_artifacts' = Append(refined_artifacts, llm.response)
    /\ round_history' = _log_interaction(round_history,
            Interaction(current_round, Creators[Len(Creators)], "creator",
                        initial_artifacts[pos.a], llm.response, "refinement",
                        pos.a - 1,
                        ArtifactReviews(reviews, pos.a - 1, Len(initial_artifacts))))
    /\ pos' = [pos EXCEPT !.a = @ + 1]
    /\ llm' = IdleFrame
    /\ UNCHANGED << config, agents, current_round, pc, initial_artifacts, reviews,
                    result, exc, checks, saves, disk,
                    embedding_model, state_dir, stream,
                    threads >>

\* refine() returned: the refined artifact is appended and the interaction logged.
RefineReturn ==
    /\ pc = "refine"
    /\ llm_returned
    /\ refined_artifacts' = Append(refined_artifacts, llm.response)
    /\ round_history' = _log_interaction(round_history,
            Interaction(current_round, Creators[1], "creator",
                        initial_artifacts[pos.a], llm.response, "refinement",
                        pos.a - 1,
                        ArtifactReviews(reviews, pos.a - 1, Len(initial_artifacts))))
    /\ pos' = [pos EXCEPT !.a = @ + 1]
    /\ llm' = IdleFrame
    /\ UNCHANGED << config, agents, current_round, pc, initial_artifacts, reviews,
                    result, exc, checks, saves, disk,
                    embedding_model, state_dir, stream,
                    threads >>

\* Mutant: the refine phase can return before every artifact is refined.
RefineDoneEarly ==
    /\ pc = "refine"
    /\ llm_idle
    /\ \E r \in Roundings(initial_artifacts) :
       LET converged == _check_convergence(initial_artifacts, refined_artifacts, r)
       IN  /\ checks' = Append(checks, converged)
           /\ round_history' = _log_round(round_history, current_round,
                                          refined_artifacts, reviews, converged)
           /\ IF converged
              THEN /\ result' = [status |-> "converged", artifacts |-> refined_artifacts]
                   /\ pc' = "else"
                   /\ UNCHANGED << initial_artifacts, current_round, reviews >>
              ELSE /\ initial_artifacts' = refined_artifacts
                   /\ IF IsLastRound(current_round)
                      THEN /\ result' = [status |-> "max_rounds_reached",
                                         artifacts |-> refined_artifacts]
                           /\ pc' = "else"
                           /\ UNCHANGED << current_round, reviews >>
                      ELSE /\ current_round' = current_round + 1
                           /\ pc' = "review"
                           /\ reviews' = << >>
                           /\ result' = result
    /\ embedding_model' = Encoded(embedding_model, initial_artifacts, refined_artifacts)
    /\ pos' = StartPos
    /\ UNCHANGED << config, agents, refined_artifacts, llm, exc, saves, disk,
                    state_dir, stream,
                    threads >>

\* _refine_phase returned: the convergence check, the round's record, and
\* either the return of _run_converge_mode or the next round.
RefineDone ==
    /\ pc = "refine"
    /\ llm_idle
    /\ (pos.a > Len(initial_artifacts) \/ Len(Creators) = 0)
    /\ \E r \in Roundings(initial_artifacts) :
       LET converged == _check_convergence(initial_artifacts, refined_artifacts, r)
       IN  /\ checks' = Append(checks, converged)
           /\ round_history' = _log_round(round_history, current_round,
                                          refined_artifacts, reviews, converged)
           /\ IF converged
              THEN /\ result' = [status |-> "converged", artifacts |-> refined_artifacts]
                   /\ pc' = "else"
                   /\ UNCHANGED << initial_artifacts, current_round, reviews >>
              ELSE /\ initial_artifacts' = refined_artifacts
                   /\ IF IsLastRound(current_round)
                      THEN /\ result' = [status |-> "max_rounds_reached",
                                         artifacts |-> refined_artifacts]
                           /\ pc' = "else"
                           /\ UNCHANGED << current_round, reviews >>
                      ELSE /\ current_round' = current_round + 1
                           /\ pc' = "review"
                           /\ reviews' = << >>
                           /\ result' = result
    /\ embedding_model' = Encoded(embedding_model, initial_artifacts, refined_artifacts)
    /\ pos' = StartPos
    /\ UNCHANGED << config, agents, refined_artifacts, llm, exc, saves, disk,
                    state_dir, stream,
                    threads >>

\* run()'s else clause: the result is saved and returned.
RunElse ==
    /\ pc = "else"
    /\ _auto_save
    /\ pc' = "done"
    /\ UNCHANGED << config, agents, round_history, current_round, pos,
                    initial_artifacts, reviews, refined_artifacts, llm, result, exc,
                    checks, embedding_model, state_dir, stream,
                    threads >>

\* Mutant: the exception is re-raised without saving.
RunExceptNoSave ==
    /\ pc = "except"
    /\ pc' = "raised"
    /\ llm' = IdleFrame
    /\ UNCHANGED << config, agents, round_history, current_round, pos,
                    initial_artifacts, reviews, refined_artifacts, result, exc,
                    checks, saves, disk, embedding_model, state_dir, stream,
                    threads >>

\* run()'s except clause: the state is saved and the exception re-raised; the
\* frames the exception left are gone.
RunExcept ==
    /\ pc = "except"
    /\ _auto_save
    /\ pc' = "raised"
    /\ llm' = IdleFrame
    /\ UNCHANGED << config, agents, round_history, current_round, pos,
                    initial_artifacts, reviews, refined_artifacts, result, exc,
                    checks, embedding_model, state_dir, stream,
                    threads >>

\* save_state(output_dir), which the command line calls once after run()
\* returned when an output directory was given: round_history.json is the
\* run state's round_history as it is, and the artifact files are the last
\* record's artifacts.
SaveState ==
    /\ pc = "done"
    /\ ~state_dir.written
    /\ state_dir' = [written |-> TRUE,
                     round_history |-> round_history,
                     artifact_files |-> IF round_history # << >>
                                        THEN Last(round_history).artifacts
                                        ELSE << >>]
    /\ UNCHANGED << config, agents, round_history, current_round, pc, pos,
                    initial_artifacts, reviews, refined_artifacts, llm, result, exc,
                    checks, saves, disk, embedding_model, stream, threads >>

Next ==
    \/ Run
    \/ GenerateCall \/ GenerateReturn \/ GenerateDone
    \/ ReviewCall \/ ReviewReturn \/ ReviewDone
    \/ RefineCall \/ RefineReturn \/ RefineDone
    \/ LlmSuccess \/ LlmFails \/ SleepEnds
    \/ RunElse \/ RunExcept
    \/ SaveState

Spec == Init /\ [][Next]_vars

\* The program is sequential: whichever step it stands at is taken.  A model
\* call in flight returns or fails and a sleep ends.
LiveSpec == Spec /\ WF_vars(Next)

(***************************************************************************)
(* Runs of one review/refine round with teams of up to MaxTeam creators    *)
(* and reviewers, in which every model call returns at its first attempt.  *)
(***************************************************************************)
TeamRoles == {"creator", "reviewer"}

TeamInit ==
    /\ config \in [mode : {"converge"}, rounds : {1},
                   agents : UNION {[1..n -> TeamRoles] : n \in 1..MaxTeam},
                   similarity_threshold : {Threshold(DEFAULT_THRESHOLD, 0)}]
    /\ agents = << >>
    /\ round_history = << >>
    /\ current_round = 0
    /\ pc = "start"
    /\ pos = StartPos
    /\ initial_artifacts = << >>
    /\ reviews = << >>
    /\ refined_artifacts = << >>
    /\ llm = IdleFrame
    /\ result = NoResult
    /\ exc = NoExc
    /\ checks = << >>
    /\ saves = 0
    /\ disk = NoDisk
    /\ embedding_model = NoModel
    /\ state_dir = NoStateDir
    /\ stream = NoStream
    /\ threads = NoThreads

TeamNext ==
    \/ Run
    \/ GenerateCall \/ GenerateReturn \/ GenerateDone
    \/ ReviewCall \/ ReviewReturn \/ ReviewDone
    \/ RefineCall \/ RefineReturn \/ RefineDone
    \/ LlmSuccess
    \/ RunElse

TeamSpec == TeamInit /\ [][TeamNext]_vars

(***************************************************************************)
(* _check_convergence called on its own, as the tests call it: a fresh     *)
(* Orchestrator, any two lists (old in initial_artifacts, new in           *)
(* refined_artifacts), any threshold, the embedding model constructed by   *)
(* an earlier call of the process or not.                                  *)
(***************************************************************************)
SeqsUpTo(S, n) == UNION {[1..k -> S] : k \in 0..n}

\* Texts with every embedding of Embed, the zero vector included.
AnyTexts == 0..3

\* Thresholds below 0, at 0, the default, one rounding error under 1.0, at
\* 1.0 and above it (the configuration does not restrict the field).
Thresholds ==
    { Threshold(-50, 0), Threshold(0, 0), Threshold(DEFAULT_THRESHOLD, 0),
      Threshold(100, -1), Threshold(100, 0), Threshold(150, 0) }

LoadedModel == [constructed |-> 1, encodes |-> 0, instance |-> 1]

CheckInit ==
    /\ config \in [mode : {"converge"}, rounds : {1}, agents : {<< "creator" >>},
                   similarity_threshold : Thresholds]
    /\ initial_artifacts \in SeqsUpTo(AnyTexts, MaxLen)
    /\ refined_artifacts \in SeqsUpTo(AnyTexts, MaxLen)
    /\ embedding_model \in {NoModel, LoadedModel}
    /\ pc = "call"
    /\ agents = << >>
    /\ round_history = << >>
    /\ current_round = 0
    /\ pos = StartPos
    /\ reviews = << >>
    /\ llm = IdleFrame
    /\ result = NoResult
    /\ exc = NoExc
    /\ checks = << >>
    /\ saves = 0
    /\ disk = NoDisk
    /\ state_dir = NoStateDir
    /\ stream = NoStream
    /\ threads = NoThreads

\* orchestrator._check_convergence(old, new) returns.
CheckConvergence ==
    /\ pc = "call"
    /\ \E r \in Roundings(initial_artifacts) :
          checks' = << _check_convergence(initial_artifacts, refined_artifacts, r) >>
    /\ embedding_model' = Encoded(embedding_model, initial_artifacts, refined_artifacts)
    /\ pc' = "checked"
    /\ UNCHANGED << config, agents, round_history, current_round, pos,
                    initial_artifacts, reviews, refined_artifacts, llm, result, exc,
                    saves, disk, state_dir, stream,
                    threads >>

CheckNext == CheckConvergence

CheckSpec == CheckInit /\ [][CheckNext]_vars

(***************************************************************************)
(* StreamingInteractionLogger (src/src/vors_ting/core/logging.py).  The     *)
(* output tree is the set of interaction directories, each with its round  *)
(* directory, its name and the contents of its three files.  A directory   *)
(* name is the sequence of the timestamp (whole seconds), "_", the         *)
(* characters of the sanitized agent name, "_" and the role.               *)
(***************************************************************************)
MaxLogged == 2
MaxName == 2

\* Characters of agent names; str.isalnum() holds of those in Alnum.
Alnum == {"a", "7"}
Chars == Alnum \cup {"-", "/", "_"}

\* Every agent name of up to MaxName characters, and the names of one team.
AnyNames == SeqsUpTo(Chars, MaxName)
LoggedNames == { << "a", "7" >>, << "a", "-" >>, << "a", "_" >> }
LogRounds == 0..1

\* Mutant: the characters that are not alphanumeric are left out.
SafeAgentNameDropped(agent_name) ==
    LET IsAlnum(c) == c \in Alnum
    IN  SelectSeq(agent_name, IsAlnum)

\* "".join(c if c.isalnum() else "_" for c in agent_name)
safe_agent_name(agent_name) ==
    [i \in 1..Len(agent_name) |->
        IF agent_name[i] \in Alnum THEN agent_name[i] ELSE "_"]

\* f"{ts_str}_{safe_agent_name}_{agent_role}"
InteractionDir(ts, agent_name, agent_role) ==
    << ts, "_" >> \o safe_agent_name(agent_name) \o << "_", agent_role >>

\* log_interaction at second ts: round_{n} and the interaction directory are
\* made if they are not there (mkdir(exist_ok=True)) and prompt.md,
\* response.md and metadata.json are opened for writing, which replaces what
\* a directory of that name held.
log_interaction(st, ts, round_num, agent_name, agent_role, prompt, response) ==
    LET dir == InteractionDir(ts, agent_name, agent_role)
        entry == [round |-> round_num, dir |-> dir,
                  prompt |-> prompt, response |-> response,
                  metadata |-> [round |-> round_num, agent_name |-> agent_name,
                                agent_role |-> agent_role]]
    IN  [clock |-> ts,
         calls |-> Append(st.calls, [ts |-> ts, round |-> round_num,
                                     agent_name |-> agent_name,
                                     agent_role |-> agent_role,
                                     prompt |-> prompt, response |-> response]),
         tree |-> {d \in st.tree : ~(d.round = round_num /\ d.dir = dir)}
                  \cup {entry}]

\* A fresh logger, as the tests make it; no orchestrator runs.
LoggerInit ==
    /\ config = [mode |-> "converge", rounds |-> 1, agents |-> << "creator" >>,
                 similarity_threshold |-> Threshold(DEFAULT_THRESHOLD, 0)]
    /\ agents = << >>
    /\ round_history = << >>
    /\ current_round = 0
    /\ pc = "logging"
    /\ pos = StartPos
    /\ initial_artifacts = << >>
    /\ reviews = << >>
    /\ refined_artifacts = << >>
    /\ llm = IdleFrame
    /\ result = NoResult
    /\ exc = NoExc
    /\ checks = << >>
    /\ saves = 0
    /\ disk = NoDisk
    /\ embedding_model = NoModel
    /\ state_dir = NoStateDir
    /\ stream = NoStream
    /\ threads = NoThreads

\* logger.log_interaction(...) is called and returns, the clock having
\* stayed in the same second or moved on, for an agent of `names`; at most
\* `most` calls are made.
LogInteraction(names, most) ==
    /\ pc = "logging"
    /\ Len(stream.calls) < most
    /\ \E tick \in 0..1, round_num \in LogRounds, agent_name \in names,
          agent_role \in TeamRoles, response \in Texts :
          stream' = log_interaction(stream, stream.clock + tick, round_num,
                                    agent_name, agent_role, Task, response)
    /\ UNCHANGED << config, agents, round_history, current_round, pc, pos,
                    initial_artifacts, reviews, refined_artifacts, llm, result, exc,
                    checks, saves, disk, embedding_model, state_dir, threads >>

\* Up to MaxLogged interactions of one team are logged.
LoggerNext == LogInteraction(LoggedNames, MaxLogged)

LoggerSpec == LoggerInit /\ [][LoggerNext]_vars

\* One interaction of an agent of any name is logged.
SanitizeNext == LogInteraction(AnyNames, 1)

SanitizeSpec == LoggerInit /\ [][SanitizeNext]_vars

(***************************************************************************)
(* _get_retry_after called on its own, on a rate-limit failure with any    *)
(* two header values.                                                      *)
(***************************************************************************)
HeaderValues ==
    { Absent, NonNumeric, Num(-5), Num(0), Num(5), Num(MIN_UNIX_TS),
      Num(MIN_UNIX_TS + 1), Num(Now - 10), Num(Now + 30) }

AnyHeaders == [retry_after : HeaderValues, reset : HeaderValues]

HintInit ==
    /\ exc \in {RateLimitError(h, 0) : h \in AnyHeaders}
    /\ pc = "hint"
    /\ config = [mode |-> "converge", rounds |-> 1, agents |-> << "creator" >>,
                 similarity_threshold |-> Threshold(DEFAULT_THRESHOLD, 0)]
    /\ agents = << >>
    /\ round_history = << >>
    /\ current_round = 0
    /\ pos = StartPos
    /\ initial_artifacts = << >>
    /\ reviews = << >>
    /\ refined_artifacts = << >>
    /\ llm = IdleFrame
    /\ result = NoResult
    /\ checks = << >>
    /\ saves = 0
    /\ disk = NoDisk
    /\ embedding_model = NoModel
    /\ state_dir = NoStateDir
    /\ stream = NoStream
    /\ threads = NoThreads

\* agent._get_retry_after(exception) returns.
GetRetryAfter ==
    /\ pc = "hint"
    /\ llm' = [llm EXCEPT !.retry_after = _get_retry_after(exc)]
    /\ pc' = "hinted"
    /\ UNCHANGED << orch_vars, exc >>

HintNext == GetRetryAfter

HintSpec == HintInit /\ [][HintNext]_vars

(***************************************************************************)
(* The delay computation of _call_llm on its own, at any attempt index.    *)
(* With the class attributes as written the loop sleeps after attempts     *)
(* 0 .. MAX_RETRIES - 2 only; MAX_RETRIES is a class attribute, and a      *)
(* subclass or a test that raises it takes the same lines to later         *)
(* attempts.                                                               *)
(***************************************************************************)
MaxAttempt == 6

DelayHeaders ==
    RateLimitHeaders \cup
        { [retry_after |-> Num(0), reset |-> Absent],
          [retry_after |-> Absent, reset |-> Num(Now + 30)],
          [retry_after |-> Num(60), reset |-> NonNumeric] }

BackoffInit ==
    /\ exc \in {RateLimitError(h, n) : h \in DelayHeaders, n \in 0..MaxAttempt}
    /\ pc = "backoff"
    /\ config = [mode |-> "converge", rounds |-> 1, agents |-> << "creator" >>,
                 similarity_threshold |-> Threshold(DEFAULT_THRESHOLD, 0)]
    /\ agents = << >>
    /\ round_history = << >>
    /\ current_round = 0
    /\ pos = StartPos
    /\ initial_artifacts = << >>
    /\ reviews = << >>
    /\ refined_artifacts = << >>
    /\ llm = IdleFrame
    /\ result = NoResult
    /\ checks = << >>
    /\ saves = 0
    /\ disk = NoDisk
    /\ embedding_model = NoModel
    /\ state_dir = NoStateDir
    /\ stream = NoStream
    /\ threads = NoThreads

\* The handler of the rate-limit failure computes the delay and calls
\* time.sleep, which refuses a negative argument.
Backoff ==
    /\ pc = "backoff"
    /\ \E j \in Jitters :
          LET d == Delay(exc, exc.attempt, j)
          IN  llm' = [llm EXCEPT !.state = IF d < 0 THEN "raised" ELSE "sleeping",
                                 !.attempt = exc.attempt,
                                 !.calls = 1,
                                 !.sleeps = IF d < 0 THEN 0 ELSE 1,
                                 !.delay = d,
                                 !.retry_after = _get_retry_after(exc),
                                 !.last_exception = exc]
    /\ pc' = "backoff_done"
    /\ UNCHANGED << orch_vars, exc >>

BackoffNext == Backoff

BackoffSpec == BackoffInit /\ [][BackoffNext]_vars

(***************************************************************************)
(* _get_embedding_model called by several threads of one process, each     *)
(* once.  A thread is at                                                   *)
(*   test       before "if _embedding_model is None"                       *)
(*   construct  inside the if, before SentenceTransformer(...)             *)
(*   assign     the instance is constructed (local), not yet stored        *)
(*   return     before "return _embedding_model"                           *)
(*   done       returned `got`                                             *)
(* A thread switch can happen between any two of these steps.              *)
(***************************************************************************)
MaxThreads == 3

NewThread == [pc |-> "test", saw_none |-> FALSE, local |-> 0, got |-> 0]

ThreadInit ==
    /\ threads \in UNION {[1..n -> {NewThread}] : n \in 1..MaxThreads}
    /\ embedding_model \in {NoModel, LoadedModel}
    /\ pc = "threads"
    /\ config = [mode |-> "converge", rounds |-> 1, agents |-> << "creator" >>,
                 similarity_threshold |-> Threshold(DEFAULT_THRESHOLD, 0)]
    /\ agents = << >>
    /\ round_history = << >>
    /\ current_round = 0
    /\ pos = StartPos
    /\ initial_artifacts = << >>
    /\ reviews = << >>
    /\ refined_artifacts = << >>
    /\ llm = IdleFrame
    /\ result = NoResult
    /\ exc = NoExc
    /\ checks = << >>
    /\ saves = 0
    /\ disk = NoDisk
    /\ state_dir = NoStateDir
    /\ stream = NoStream

thread_frame == << config, agents, round_history, current_round, pc, pos,
                   initial_artifacts, reviews, refined_artifacts, llm, result,
                   exc, checks, saves, disk, state_dir, stream >>

\* if _embedding_model is None
ThreadTest(t) ==
    /\ threads[t].pc = "test"
    /\ threads' = [threads EXCEPT
                      ![t].saw_none = (embedding_model.instance = 0),
                      ![t].pc = IF embedding_model.instance = 0
                                THEN "construct" ELSE "return"]
    /\ UNCHANGED << thread_frame, embedding_model >>

\* Mutant: the constructor is called under a lock that tests again, and
\* hands over the instance that is there.
ThreadConstructGuarded(t) ==
    /\ threads[t].pc = "construct"
    /\ IF embedding_model.instance = 0
       THEN /\ embedding_model' = [embedding_model EXCEPT !.constructed = @ + 1]
            /\ threads' = [threads EXCEPT ![t].local = embedding_model.constructed + 1,
                                          ![t].pc = "assign"]
       ELSE /\ embedding_model' = embedding_model
            /\ threads' = [threads EXCEPT ![t].local = embedding_model.instance,
                                          ![t].pc = "assign"]
    /\ UNCHANGED thread_frame

\* SentenceTransformer("all-MiniLM-L6-v2") returns a new instance.
ThreadConstruct(t) ==
    /\ threads[t].pc = "construct"
    /\ embedding_model' = [embedding_model EXCEPT !.constructed = @ + 1]
    /\ threads' = [threads EXCEPT ![t].local = embedding_model.constructed + 1,
                                  ![t].pc = "assign"]
    /\ UNCHANGED thread_frame

\* _embedding_model = <the instance>
ThreadAssign(t) ==
    /\ threads[t].pc = "assign"
    /\ embedding_model' = [embedding_model EXCEPT !.instance = threads[t].local]
    /\ threads' = [threads EXCEPT ![t].pc = "return"]
    /\ UNCHANGED thread_frame

\* return _embedding_model
ThreadReturn(t) ==
    /\ threads[t].pc = "return"
    /\ threads' = [threads EXCEPT ![t].got = embedding_model.instance,
                                  ![t].pc = "done"]
    /\ UNCHANGED << thread_frame, embedding_model >>

ThreadNext ==
    \E t \in 1..Len(threads) :
        \/ ThreadTest(t)
        \/ ThreadConstruct(t)
        \/ ThreadAssign(t)
        \/ ThreadReturn(t)

ThreadSpec == ThreadInit /\ [][ThreadNext]_vars

(***************************************************************************)
(* Properties.                                                             *)
(***************************************************************************)
Terminated == pc \in {"done", "raised"}
Statuses == {"converged", "max_rounds_reached"}

\* Whether a rate-limit failure carries a wait hint: one of its two headers
\* is a number.
CarriesHint(e) == e.headers.retry_after.kind = "num" \/ e.headers.reset.kind = "num"

\* C1: in converge mode run() always terminates, when every model call returns
\* or fails and every sleep ends (LiveSpec): it returns a result whose status
\* is "converged" or "max_rounds_reached" or raises a failure, and it runs at
\* most config.rounds review/refine rounds after round 0.
C1_RunTerminates ==
    /\ (config.mode = "converge") ~> Terminated
    /\ [](config.mode = "converge" /\ pc = "done"
            => result.status \in Statuses /\ exc = NoExc)
    /\ [](config.mode = "converge" /\ pc = "raised"
            => result.status = "none" /\ exc # NoExc)
    /\ [](current_round <= config.rounds /\ Len(checks) <= config.rounds)

C1_Witness ==
    /\ pc = "done"
    /\ config.mode = "converge"
    /\ config.rounds >= 2
    /\ current_round = config.rounds
    /\ result.status = "max_rounds_reached"

\* C2: when the convergence check of round r returns true, for any r up to
\* config.rounds, the run stops in that round: the result is "converged" with
\* the refined artifacts of round r, current_round is r, the record of round r
\* is the last one and has converged = true, no earlier record has it, and no
\* model call is issued any more.
C2_ConvergedStops ==
    \A r \in 1..Len(checks) :
        checks[r] =>
            /\ r = Len(checks)
            /\ pc \in {"else", "done"}
            /\ llm = IdleFrame
            /\ current_round = r
            /\ result = [status |-> "converged", artifacts |-> refined_artifacts]
            /\ Len(round_history) = r + 1
            /\ Last(round_history).round = r
            /\ Last(round_history).converged
            /\ Last(round_history).artifacts = refined_artifacts
            /\ \A i \in 1..r : ~round_history[i].converged

C2_Witness ==
    /\ pc = "done"
    /\ config.rounds >= 2
    /\ Len(checks) = config.rounds
    /\ checks[Len(checks)]
    /\ Len(refined_artifacts) >= 2

\* C3: run() returns "max_rounds_reached" if and only if the convergence check
\* returned false in every round 1..config.rounds; then current_round is
\* config.rounds, the artifacts returned are the refined artifacts of the last
\* round, and there are exactly config.rounds + 1 round records, none of them
\* converged.
C3_MaxRoundsReached ==
    /\ result.status = "max_rounds_reached" => pc \in {"else", "done"}
    /\ pc \in {"else", "done"} =>
          /\ (result.status = "max_rounds_reached")
                <=> (Len(checks) = config.rounds /\ \A r \in 1..Len(checks) : ~checks[r])
          /\ result.status = "max_rounds_reached" =>
                /\ current_round = config.rounds
                /\ result.artifacts = refined_artifacts
                /\ Len(round_history) = config.rounds + 1
                /\ Last(round_history).artifacts = result.artifacts
                /\ \A i \in 1..Len(round_history) : ~round_history[i].converged

C3_Witness ==
    /\ pc = "else"
    /\ result.status = "max_rounds_reached"
    /\ config.rounds >= 2
    /\ Len(reviews) >= 1

\* C4: one invocation of _call_llm issues at most MAX_RETRIES model calls, and
\* it returns the text of the first call that succeeds: when it has returned,
\* the calls it issued are the attempts up to the successful one and the
\* sleeps are those between them.
C4_BoundedCalls ==
    /\ llm.calls <= MAX_RETRIES
    /\ llm.state \in {"calling", "returned"} =>
          /\ llm.calls = llm.attempt + 1
          /\ llm.sleeps = llm.attempt
    /\ llm.state = "returned" => llm.response \in (Texts \cup Feedbacks)

C4_Witness ==
    /\ llm.state = "returned"
    /\ llm.calls = MAX_RETRIES
    /\ llm.sleeps = MAX_RETRIES - 1

\* C5: a failure of a model call that is not a rate-limit failure propagates at
\* once, whatever the attempt: it is never kept for a retry, and no sleep and
\* no attempt follows it.
C5_NonRateLimitPropagates ==
    /\ llm.last_exception.type \in {"none", "RateLimitError"}
    /\ exc.type = "APIError" => pc \in {"except", "raised"}
    /\ (exc.type = "APIError" /\ pc = "except") =>
          /\ llm.state = "raised"
          /\ llm.calls = exc.attempt + 1
          /\ llm.sleeps = exc.attempt
          /\ llm.delay = 0

C5_Witness ==
    /\ pc = "except"
    /\ exc.type = "APIError"
    /\ exc.attempt = 2
    /\ llm.sleeps = 2

\* C6: when all MAX_RETRIES attempts of an invocation are rate-limited, the
\* rate-limit failure of the last attempt propagates after exactly MAX_RETRIES
\* attempts and MAX_RETRIES - 1 sleeps: no sleep follows the last attempt.
C6_RetriesExhausted ==
    /\ llm.sleeps <= MAX_RETRIES - 1
    /\ llm.state = "sleeping" => llm.attempt < MAX_RETRIES - 1
    /\ (pc = "except" /\ exc.type = "RateLimitError") =>
          /\ llm.state = "raised"
          /\ llm.calls = MAX_RETRIES
          /\ llm.sleeps = MAX_RETRIES - 1
          /\ exc.attempt = MAX_RETRIES - 1

C6_Witness ==
    /\ pc = "except"
    /\ exc.type = "RateLimitError"
    /\ llm.calls = MAX_RETRIES
    /\ exc.headers # NoHeaders

\* C7: when the rate-limit failure carries no wait hint, the delay slept after
\* attempt n lies in [d, 1.2 d] with d = min(BASE_DELAY * EXPONENTIAL_BASE^n,
\* MAX_DELAY), for n in 0..MAX_RETRIES-2.
C7_BackoffWithJitter ==
    (llm.state = "sleeping" /\ ~CarriesHint(llm.last_exception)) =>
        LET d == Min(BASE_DELAY * (EXPONENTIAL_BASE ^ llm.attempt), MAX_DELAY)
        IN  /\ llm.attempt \in 0..(MAX_RETRIES - 2)
            /\ d <= llm.delay
            /\ 10 * llm.delay <= 12 * d

C7_Witness ==
    /\ llm.state = "sleeping"
    /\ ~CarriesHint(llm.last_exception)
    /\ llm.attempt = MAX_RETRIES - 2
    /\ llm.delay = 9600

\* _call_llm is in time.sleep, or time.sleep has just refused its argument.
InSleepCall ==
    \/ llm.state = "sleeping"
    \/ llm.state = "raised" /\ exc.type = "ValueError"

\* C8: when the rate-limit failure carries a wait hint, the delay passed to
\* time.sleep is min(hint, MAX_DELAY) exactly, whatever the attempt.
C8_HintedDelay ==
    (InSleepCall /\ CarriesHint(llm.last_exception)) =>
        /\ llm.retry_after.some
        /\ llm.delay = Min(1000 * llm.retry_after.val, MAX_DELAY)

C8_Witness ==
    /\ llm.state = "sleeping"
    /\ llm.attempt >= 1
    /\ llm.retry_after = Hint(90)
    /\ llm.delay = MAX_DELAY

\* C9: every call of run() saves exactly once: not before the terminal status
\* is computed or the failure caught, and before run() returns or re-raises.
C9_SavedOnce ==
    /\ saves <= 1
    /\ saves = 1 <=> Terminated
    /\ disk.written <=> saves = 1
    /\ pc = "done" => result.status \in Statuses /\ exc = NoExc
    /\ pc = "raised" => result.status = "none" /\ exc # NoExc

C9_Witness ==
    /\ pc = "raised"
    /\ saves = 1
    /\ exc.type = "NotImplementedError"

\* C10: a model-call failure that leaves the retry controller, in any phase,
\* aborts the run: no model call is issued after it, the state is saved, and
\* run() raises that failure.
ModelCallFailed == exc.type \in {"APIError", "RateLimitError"}

C10_FailureAborts ==
    /\ [](ModelCallFailed =>
            /\ pc \in {"except", "raised"}
            /\ llm.state \in {"raised", "idle"}
            /\ result.status = "none")
    /\ [](ModelCallFailed /\ pc = "raised" => saves = 1 /\ disk.written)
    /\ [][ModelCallFailed =>
            /\ exc' = exc
            /\ pc' = "raised"
            /\ saves' = saves + 1
            /\ llm'.calls <= llm.calls
            /\ round_history' = round_history]_vars

C10_Witness ==
    /\ pc = "raised"
    /\ exc.type = "RateLimitError"
    /\ current_round = 2
    /\ Len(reviews) >= 1
    /\ refined_artifacts = << >>
    /\ saves = 1

\* The texts and reviews the persisted transcript holds: the artifacts and
\* reviews of its round records and the responses of their interactions.
TranscriptTexts ==
    UNION { {rec.artifacts[i] : i \in 1..Len(rec.artifacts)}
            \cup {rec.interactions[j].response : j \in
                      {j \in 1..Len(rec.interactions) :
                          rec.interactions[j].agent_role = "creator"}}
          : rec \in {disk.round_history[k] : k \in 1..Len(disk.round_history)} }

TranscriptReviews ==
    UNION { {<< rec.reviews[i].feedback, rec.reviews[i].by >> : i \in 1..Len(rec.reviews)}
            \cup {<< rec.interactions[j].response, rec.interactions[j].agent_name >> :
                      j \in {j \in 1..Len(rec.interactions) :
                                rec.interactions[j].agent_role = "reviewer"}}
          : rec \in {disk.round_history[k] : k \in 1..Len(disk.round_history)} }

\* C11: when a run fails, every artifact and every review a completed model
\* call returned before the failure (round-0 artifacts and the reviews of the
\* failing round included) is in the persisted transcript.
C11_NoWorkLost ==
    pc = "raised" =>
        /\ \A i \in 1..Len(initial_artifacts) : initial_artifacts[i] \in TranscriptTexts
        /\ \A i \in 1..Len(refined_artifacts) : refined_artifacts[i] \in TranscriptTexts
        /\ \A i \in 1..Len(reviews) :
              << reviews[i].feedback, reviews[i].by >> \in TranscriptReviews

\* C12: a run in mode "diverge" is rejected with NotImplementedError before any
\* round: no agent is initialised, no model call is issued and no round record
\* is created, up to the raise and after it.
C12_DivergeRejected ==
    config.mode = "diverge" =>
        /\ pc \in {"start", "except", "raised"}
        /\ pc # "start" => exc = NotImplemented
        /\ agents = << >>
        /\ llm = IdleFrame
        /\ round_history = << >>
        /\ current_round = 0
        /\ disk.round_history = << >>

C12_Witness ==
    /\ config.mode = "diverge"
    /\ Len(config.agents) = 2
    /\ pc = "raised"
    /\ exc = NotImplemented
    /\ disk.written

\* C13: _check_convergence(A, B) returns false whenever len(A) # len(B),
\* whatever the texts and the threshold, and raises nothing.
C13_MismatchedLengths ==
    (pc = "checked" /\ Len(initial_artifacts) # Len(refined_artifacts)) =>
        /\ checks = << FALSE >>
        /\ exc = NoExc

C13_Witness ==
    /\ pc = "checked"
    /\ Len(initial_artifacts) = 1
    /\ Len(refined_artifacts) = 2
    /\ refined_artifacts[1] = initial_artifacts[1]
    /\ config.similarity_threshold = Threshold(-50, 0)
    /\ checks = << FALSE >>

\* C14: _check_convergence([], []) returns true for any threshold, and neither
\* constructs the embedding model nor encodes with it.
C14_EmptyConverged ==
    [][(pc = "call" /\ initial_artifacts = << >> /\ refined_artifacts = << >>) =>
            /\ checks' = << TRUE >>
            /\ embedding_model' = embedding_model]_vars

C14_Witness ==
    /\ pc = "checked"
    /\ initial_artifacts = << >>
    /\ refined_artifacts = << >>
    /\ config.similarity_threshold = Threshold(150, 0)
    /\ embedding_model = NoModel
    /\ checks = << TRUE >>

\* similarity >= threshold for the quotient the code computed (rounding r):
\* an undefined quotient is not >= anything.
SimilarityAtLeast(u, v, th, r) ==
    /\ Dot(u, u) # 0
    /\ Dot(v, v) # 0
    /\ LET c == CompareCosine(u, v, th.h)
       IN  c > 0 \/ (c = 0 /\ r >= th.e)

\* C15: for two non-empty lists of equal length _check_convergence returns
\* true if and only if the similarity of every index-aligned pair (i with i)
\* is >= the threshold.
C15_AllPairsAtLeast ==
    [][(/\ pc = "call"
        /\ initial_artifacts # << >>
        /\ Len(initial_artifacts) = Len(refined_artifacts)) =>
            \E r \in Roundings(initial_artifacts) :
                checks' = << \A i \in 1..Len(initial_artifacts) :
                                SimilarityAtLeast(Embed(initial_artifacts[i]),
                                                  Embed(refined_artifacts[i]),
                                                  config.similarity_threshold,
                                                  r[i]) >>]_vars

\* The threshold is at most 1.0; at most 1.0 less one rounding error.
AtMostOne(th) == th.h < 100 \/ (th.h = 100 /\ th.e <= 0)
UnderOne(th) == th.h < 100 \/ (th.h = 100 /\ th.e <= -1)

\* C16 as stated: _check_convergence(X, X) is true for any non-empty X and any
\* threshold <= 1.0.
C16_SelfConverged ==
    (/\ pc = "checked"
     /\ initial_artifacts # << >>
     /\ refined_artifacts = initial_artifacts
     /\ AtMostOne(config.similarity_threshold)) =>
        checks = << TRUE >>

\* C16 amended: _check_convergence(X, X) is true for any non-empty X and any
\* threshold that is below 1.0 by at least the rounding error of the float32
\* quotient.
C16_SelfConvergedUnderOne ==
    (/\ pc = "checked"
     /\ initial_artifacts # << >>
     /\ refined_artifacts = initial_artifacts
     /\ UnderOne(config.similarity_threshold)) =>
        checks = << TRUE >>

C16_Witness ==
    /\ pc = "checked"
    /\ Len(initial_artifacts) = 2
    /\ initial_artifacts[1] # initial_artifacts[2]
    /\ refined_artifacts = initial_artifacts
    /\ config.similarity_threshold = Threshold(100, -1)
    /\ embedding_model.encodes = 2
    /\ checks = << TRUE >>

\* C17: the review phase issues one review call per (artifact, reviewer) pair,
\* and its flattened result is artifact-major, agent-minor: with R reviewers
\* the review of artifact a by the k-th reviewer is at position a*R + k, and
\* the phase returns A*R reviews.
C17_ReviewOrder ==
    LET na == Len(initial_artifacts)
        nr == Len(Reviewers)
    IN  pc \in {"review", "refine"} =>
            /\ Len(reviews) <= na * nr
            /\ pc = "refine" => Len(reviews) = na * nr
            /\ \A a \in 0..(na - 1) : \A k \in 0..(nr - 1) :
                  a * nr + k < Len(reviews) =>
                      /\ reviews[a * nr + k + 1].about = a
                      /\ reviews[a * nr + k + 1].by = Reviewers[k + 1]

C17_Witness ==
    /\ pc = "refine"
    /\ Len(initial_artifacts) = 2
    /\ Len(Reviewers) = 2
    /\ Len(reviews) = 4
    /\ reviews[2].about = 0
    /\ reviews[3].about = 1

\* C18: the reviews handed to the producer for the artifact at index i are
\* exactly the reviews the review phase produced for artifact i: all R of
\* them and none about another artifact.
C18_ReviewsOfOwnArtifact ==
    \A n \in 1..Len(round_history) :
        \A j \in 1..Len(round_history[n].interactions) :
            LET it == round_history[n].interactions[j]
            IN  it.phase = "refinement" =>
                    /\ Len(it.reviews) = Len(Reviewers)
                    /\ \A m \in 1..Len(it.reviews) :
                          it.reviews[m].about = it.artifact_index

\* C19: in every reachable state the round records are numbered 0, 1, 2, ...
\* in order: the k-th record (from 0) has round number k, one record per round
\* finished, none skipped or repeated; the persisted history likewise.
C19_RoundNumbers ==
    /\ \A k \in 1..Len(round_history) : round_history[k].round = k - 1
    /\ \A k \in 1..Len(disk.round_history) : disk.round_history[k].round = k - 1
    /\ Len(round_history) <= current_round + 1
    /\ pc \in {"review", "refine"} => Len(round_history) = current_round
    /\ pc = "done" => Len(round_history) = current_round + 1

C19_Witness ==
    /\ pc = "done"
    /\ Len(round_history) = 3
    /\ round_history[3].round = 2
    /\ disk.round_history = round_history

\* C20: every interaction in the run state sits in the record of its own
\* round: its round number is the record's.
C20_InteractionsInOwnRound ==
    \A k \in 1..Len(round_history) :
        \A j \in 1..Len(round_history[k].interactions) :
            round_history[k].interactions[j].round = round_history[k].round

\* The interactions in the run state of a phase and round, as (record,
\* position) pairs.
Logged(phase, round_num) ==
    {kj \in UNION {{<< k, j >> : j \in 1..Len(round_history[k].interactions)} :
                      k \in 1..Len(round_history)} :
        /\ round_history[kj[1]].interactions[kj[2]].phase = phase
        /\ round_history[kj[1]].interactions[kj[2]].round = round_num}

\* C21: every model call that returned to the orchestrator has exactly one
\* interaction in the run state: one per round-0 artifact generated, one per
\* review and one per refined artifact of the round under way; and after the
\* run the persisted transcript holds the run state's records.
C21_EveryCallLogged ==
    /\ pc = "generate" => Cardinality(Logged("initial", 0)) = Len(initial_artifacts)
    /\ round_history # << >> =>
          Cardinality(Logged("initial", 0)) = Len(round_history[1].artifacts)
    /\ pc \in {"review", "refine"} =>
          Cardinality(Logged("review", current_round)) = Len(reviews)
    /\ pc = "refine" =>
          Cardinality(Logged("refinement", current_round)) = Len(refined_artifacts)
    /\ Terminated => disk.round_history = round_history

\* C22: a round record in the run state is never changed by a later step:
\* every step leaves every record already in round_history as it was.
C22_RecordsAppendOnly ==
    [][/\ Len(round_history') >= Len(round_history)
       /\ \A k \in 1..Len(round_history) : round_history'[k] = round_history[k]]_vars

\* C23: after any run, returned or raised, the output directory holds the
\* transcript of the run state, one artifact file per artifact of the last
\* round record with that artifact's text (none when there is no record), on
\* success the artifacts of the returned result, and rounds_completed is the
\* orchestrator's current_round.
C23_Persisted ==
    Terminated =>
        /\ disk.written
        /\ disk.round_history = round_history
        /\ Len(disk.artifact_files) =
              (IF round_history = << >> THEN 0 ELSE Len(Last(round_history).artifacts))
        /\ \A i \in 1..Len(disk.artifact_files) :
              disk.artifact_files[i] = Last(round_history).artifacts[i]
        /\ pc = "done" => disk.artifact_files = result.artifacts
        /\ disk.rounds_completed = current_round

\* A run that failed in its second round after a first round that changed the
\* artifact.
C23_Witness ==
    /\ pc = "raised"
    /\ Len(round_history) = 2
    /\ round_history[2].artifacts # round_history[1].artifacts
    /\ disk.artifact_files = round_history[2].artifacts
    /\ current_round = 2
    /\ disk.rounds_completed = 2

\* C25: the embedding model is a lazily constructed singleton: it is not
\* constructed before the first call of _get_embedding_model (the first
\* convergence check of two non-empty lists of equal length, which a run
\* makes when it has a creator), that call constructs it, and over any
\* sequence of convergence checks it is constructed at most once, every later
\* call encoding with the model already there.
C25_LazySingleton ==
    /\ embedding_model.constructed <= 1
    /\ embedding_model.constructed = 1 <=> (checks # << >> /\ Len(Creators) >= 1)
    /\ embedding_model.encodes = (IF Len(Creators) >= 1 THEN 2 * Len(checks) ELSE 0)

\* Two convergence checks have encoded with one model.
C25_Witness ==
    /\ Len(checks) = 2
    /\ Len(Creators) >= 1
    /\ embedding_model.constructed = 1
    /\ embedding_model.encodes = 4

\* Some configured agent has a role that is not creator, reviewer or curator.
HasUnknownRole == \E i \in 1..Len(config.agents) : config.agents[i] \notin KnownRoles

\* What a run rejected by initialize_agents looks like, up to the raise and
\* after it: the ValueError of the unknown role, the agents before the first
\* unknown role built once, no model call, no round record, one save.
RejectedByInitializeAgents ==
    /\ pc \in {"start", "except", "raised"}
    /\ pc # "start" =>
          /\ exc = UnknownRoleError
          /\ Len(agents) < Len(config.agents)
          /\ \A i \in 1..Len(agents) :
                agents[i] = config.agents[i] /\ agents[i] \in KnownRoles
          /\ config.agents[Len(agents) + 1] \notin KnownRoles
    /\ llm = IdleFrame
    /\ round_history = << >>
    /\ current_round = 0
    /\ disk.round_history = << >>
    /\ saves <= 1

\* C28 as stated: a run whose configuration has an agent of an unknown role,
\* wherever it stands, fails with the error of initialize_agents before any
\* model call and any round record, and is not retried.
C28_UnknownRoleRejected ==
    HasUnknownRole => RejectedByInitializeAgents

\* C28 amended: the same of a run in converge mode.
C28_UnknownRoleRejectedConverge ==
    (config.mode = "converge" /\ HasUnknownRole) => RejectedByInitializeAgents

\* The unknown role stands second, after a creator that was built.
C28_Witness ==
    /\ config.mode = "converge"
    /\ config.agents = << "creator", "editor" >>
    /\ agents = << "creator" >>
    /\ pc = "raised"
    /\ exc = UnknownRoleError
    /\ disk.written

\* A model call is under way: issued and not yet returned to its caller.
CallUnderWay == llm.state \in {"calling", "sleeping"}

\* C30: model calls are issued one at a time and in phase order.  While a
\* call is under way (retries and sleeps included) the orchestrator stands
\* still, and a call is issued only by an idle orchestrator.  Generation calls
\* are made before any review, refined artifact, check or record exists.
\* Review calls of round r are made with all artifacts generated, r - 1
\* checks made and no refinement of round r.  Refine calls of round r are
\* made with all A*R reviews of the round.  The check of round r is made with
\* no call under way, after the last refine call of round r, and the next
\* round's calls come after it.
C30_OneAtATimeInPhaseOrder ==
    /\ [](llm.state # "idle" => pc \in {"generate", "review", "refine", "except"})
    /\ [](pc = "generate" =>
            /\ reviews = << >> /\ refined_artifacts = << >>
            /\ round_history = << >> /\ checks = << >>
            /\ current_round = 0)
    /\ [](pc = "review" =>
            /\ Len(initial_artifacts) = Len(Creators)
            /\ Len(round_history) = current_round
            /\ Len(checks) = current_round - 1
            /\ Logged("refinement", current_round) = {})
    /\ [](pc = "refine" =>
            /\ Len(reviews) = Len(initial_artifacts) * Len(Reviewers)
            /\ Len(checks) = current_round - 1)
    /\ [][/\ CallUnderWay =>
                UNCHANGED << initial_artifacts, reviews, refined_artifacts, pos,
                             round_history, current_round, checks >>
          /\ (llm.state # "calling" /\ llm'.state = "calling" /\ llm.state # "sleeping") =>
                llm.state = "idle" /\ llm' = NewFrame /\ pc' = pc
          /\ Len(checks') # Len(checks) =>
                /\ pc = "refine" /\ llm.state = "idle" /\ llm'.state = "idle"
                /\ Len(checks') = current_round
                /\ Len(refined_artifacts) =
                      (IF Len(Creators) >= 1 THEN Len(initial_artifacts) ELSE 0)
                /\ pc' = "review" =>
                      /\ current_round' = current_round + 1
                      /\ reviews' = << >>
                      /\ pos' = StartPos]_vars

\* A refine call of the second round is in a backoff sleep.
C30_Witness ==
    /\ pc = "refine"
    /\ current_round = 2
    /\ llm.state = "sleeping"
    /\ Len(reviews) = 1
    /\ Len(checks) = 1

\* C24: the round_history.json that save_state writes after a run holds no
\* interaction records (and so no prompt text), only the rounds' artifacts,
\* reviews and flags; the artifact files are the final artifacts.
C24_SaveStateWithoutInteractions ==
    state_dir.written =>
        /\ \A k \in 1..Len(state_dir.round_history) :
              state_dir.round_history[k].interactions = << >>
        /\ state_dir.artifact_files = result.artifacts

\* The calls logged for round n, by their position in the order of calls.
CallsOfRound(n) == {i \in 1..Len(stream.calls) : stream.calls[i].round = n}

\* C26: after k interactions were logged for round n, whatever the agent
\* names, roles and timing, round_n holds k interaction directories, and each
\* logged interaction has a directory holding its own prompt.md, response.md
\* and metadata.json as soon as log_interaction has returned.
C26_OwnDirectory ==
    /\ \A n \in LogRounds :
          Cardinality({d \in stream.tree : d.round = n}) = Cardinality(CallsOfRound(n))
    /\ \A i \in 1..Len(stream.calls) :
          LET c == stream.calls[i]
          IN  \E d \in stream.tree :
                 /\ d.round = c.round
                 /\ d.prompt = c.prompt
                 /\ d.response = c.response
                 /\ d.metadata = [round |-> c.round, agent_name |-> c.agent_name,
                                  agent_role |-> c.agent_role]

\* The part of a directory name between the timestamp and the role.
NamePart(dir) == SubSeq(dir, 3, Len(dir) - 2)

\* C27: the directory made for an interaction is named by the timestamp, the
\* agent name and the role, and its name part is the agent name with every
\* character that is not alphanumeric replaced by one underscore and every
\* alphanumeric character kept in place: the same length, the same order, and
\* no path separator or other special character.
C27_NameSanitized ==
    \A d \in stream.tree :
        \E i \in 1..Len(stream.calls) :
            LET c == stream.calls[i]
                part == NamePart(d.dir)
            IN  /\ d.metadata.agent_name = c.agent_name
                /\ d.dir[1] = c.ts /\ d.dir[2] = "_"
                /\ d.dir[Len(d.dir) - 1] = "_" /\ d.dir[Len(d.dir)] = c.agent_role
                /\ Len(part) = Len(c.agent_name)
                /\ \A j \in 1..Len(part) :
                      /\ c.agent_name[j] \in Alnum => part[j] = c.agent_name[j]
                      /\ c.agent_name[j] \notin Alnum => part[j] = "_"
                      /\ part[j] \in Alnum \cup {"_"}

\* An agent name with a path separator after a letter was logged.
C27_Witness ==
    /\ Len(stream.calls) = 1
    /\ stream.calls[1].agent_name = << "a", "/" >>
    /\ \E d \in stream.tree : NamePart(d.dir) = << "a", "_" >>

\* C29: the wait hint _get_retry_after extracts from a rate-limit failure is
\* the retry-after value (seconds) when that header is a number; otherwise,
\* from the reset header when it is a number, max(0, reset - now) if the value
\* exceeds 1_000_000_000 and the value itself if it does not; and none when
\* neither header is a number (or there are no headers).
C29_WaitHint ==
    pc = "hinted" =>
        LET ra == exc.headers.retry_after
            rs == exc.headers.reset
            hint == llm.retry_after
        IN  /\ ra.kind = "num" => (hint.some /\ hint.val = ra.val)
            /\ (ra.kind # "num" /\ rs.kind = "num" /\ rs.val > MIN_UNIX_TS) =>
                  /\ hint.some
                  /\ hint.val >= 0
                  /\ hint.val >= rs.val - Now
                  /\ hint.val \in {0, rs.val - Now}
            /\ (ra.kind # "num" /\ rs.kind = "num" /\ rs.val <= MIN_UNIX_TS) =>
                  (hint.some /\ hint.val = rs.val)
            /\ (ra.kind # "num" /\ rs.kind # "num") => ~hint.some

\* A reset time ten seconds in the past beside a retry-after that is no
\* number: the hint is to wait 0 seconds.
C29_Witness ==
    /\ pc = "hinted"
    /\ exc.headers.retry_after = NonNumeric
    /\ exc.headers.reset = Num(Now - 10)
    /\ llm.retry_after = Hint(0)

\* The interaction at a (record, position) pair of Logged.
LoggedAt(kj) == round_history[kj[1]].interactions[kj[2]]

\* C31: with at least one creator the refine phase issues exactly one refine
\* call per input artifact, always to the first creator of the agent list:
\* the refine calls made so far are one per refined artifact, the call for
\* index i was made to the first creator with the input artifact at index i
\* and returned the refined artifact at index i; and the phase ends with as
\* many refined artifacts as input artifacts.
C31_RefineByFirstCreator ==
    /\ [](pc = "refine" /\ Len(Creators) >= 1 =>
            LET made == Logged("refinement", current_round)
            IN  /\ Cardinality(made) = Len(refined_artifacts)
                /\ Len(refined_artifacts) = pos.a - 1
                /\ \A i \in 1..Len(refined_artifacts) :
                      \E kj \in made :
                          /\ LoggedAt(kj).artifact_index = i - 1
                          /\ LoggedAt(kj).prompt = initial_artifacts[i]
                          /\ LoggedAt(kj).response = refined_artifacts[i]
                /\ \A kj \in made :
                      /\ agents[LoggedAt(kj).agent_name] = "creator"
                      /\ \A a \in 1..(LoggedAt(kj).agent_name - 1) : agents[a] # "creator")
    /\ [][(pc = "refine" /\ pc' # "refine" /\ pc' # "except" /\ Len(Creators) >= 1) =>
              Len(refined_artifacts) = Len(initial_artifacts)]_vars

\* Two artifacts were refined by the first of two creators, who stands
\* second in the agent list.
C31_Witness ==
    /\ pc = "refine"
    /\ agents[1] = "reviewer"
    /\ Len(Creators) = 2
    /\ Len(refined_artifacts) = 2
    /\ refined_artifacts # initial_artifacts
    /\ Cardinality(Logged("refinement", 1)) = 2

\* The threads that found _embedding_model uninitialised.
SawNone == {t \in 1..Len(threads) : threads[t].saw_none}

\* C32: construction of the embedding model is not guarded: every thread that
\* observed the uninitialised state constructs an instance of its own, so
\* when two threads both observed it the model is constructed twice (once
\* per such thread); every caller receives an instance that was
\* constructed, not always the same one.
C32_ConstructedPerObserver ==
    /\ SawNone # {} =>
          embedding_model.constructed =
              Cardinality({t \in SawNone : threads[t].pc \in {"assign", "return", "done"}})
    /\ SawNone = {} => embedding_model.constructed <= 1
    /\ \A t \in 1..Len(threads) :
          threads[t].pc = "done" =>
              threads[t].got \in 1..embedding_model.constructed
    /\ ((\A t \in 1..Len(threads) : threads[t].pc = "done") /\ Cardinality(SawNone) >= 2) =>
          embedding_model.constructed >= 2

\* Two threads made the first call together, both saw no model, two were
\* constructed and the callers hold different instances.
C32_Witness ==
    /\ Len(threads) = 2
    /\ SawNone = {1, 2}
    /\ threads[1].pc = "done" /\ threads[2].pc = "done"
    /\ embedding_model.constructed = 2
    /\ threads[1].got # threads[2].got

\* The similarity of pair i is undefined: one of its embeddings has zero norm.
Undefined(i) ==
    \/ Dot(Embed(initial_artifacts[i]), Embed(initial_artifacts[i])) = 0
    \/ Dot(Embed(refined_artifacts[i]), Embed(refined_artifacts[i])) = 0

\* C33: when the similarity of some index-aligned pair is undefined (zero
\* norm, the cosine is 0/0), _check_convergence does not report convergence.
C33_UndefinedNotConverged ==
    (/\ pc = "checked"
     /\ Len(initial_artifacts) = Len(refined_artifacts)
     /\ \E i \in 1..Len(initial_artifacts) : Undefined(i)) =>
        checks = << FALSE >>

\* C34: within a run the number of artifacts never changes: every round
\* record, in the run state and on disk, has as many artifacts as there are
\* creators, the refine phase returns as many artifacts as it received, and
\* so no convergence check of a run compares lists of different lengths.
C34_ArtifactCountConstant ==
    /\ [](/\ \A k \in 1..Len(round_history) :
                Len(round_history[k].artifacts) = Len(Creators)
          /\ \A k \in 1..Len(disk.round_history) :
                Len(disk.round_history[k].artifacts) = Len(Creators)
          /\ pc \in {"review", "refine", "else", "done"} =>
                Len(initial_artifacts) = Len(Creators))
    /\ [][Len(checks') # Len(checks) =>
              /\ Len(refined_artifacts) = Len(initial_artifacts)
              /\ Len(refined_artifacts) = Len(Creators)]_vars

\* Two creators, three records of two artifacts each.
C34_Witness ==
    /\ pc = "done"
    /\ Len(Creators) = 2
    /\ Len(round_history) = 3
    /\ Len(round_history[3].artifacts) = 2
    /\ Len(checks) = 2

\* No configured agent is a creator.
NoCreator == \A i \in 1..Len(config.agents) : config.agents[i] # "creator"

\* What a run without any model call that converges in round 1 on no
\* artifact looks like, from its start to its return.
ConvergesEmptyInRoundOne ==
    /\ llm = IdleFrame
    /\ exc = NoExc
    /\ pc \in {"start", "generate", "review", "refine", "else", "done"}
    /\ initial_artifacts = << >> /\ reviews = << >> /\ refined_artifacts = << >>
    /\ current_round <= 1
    /\ \A k \in 1..Len(round_history) :
          round_history[k].interactions = << >> /\ round_history[k].artifacts = << >>
    /\ pc \in {"else", "done"} =>
          /\ result = [status |-> "converged", artifacts |-> << >>]
          /\ current_round = 1
          /\ checks = << TRUE >>
          /\ Len(round_history) = 2

\* C35 as stated: a run whose configuration has no creator issues no model
\* call and ends in round 1 with status "converged" and no artifact,
\* whatever the number of reviewers and of configured rounds.
C35_NoCreatorConverges ==
    NoCreator => ConvergesEmptyInRoundOne

\* C35 amended: the same of a run in converge mode whose agents all have
\* known roles.
C35_NoCreatorConvergesKnownRoles ==
    (NoCreator /\ config.mode = "converge" /\ ~HasUnknownRole) =>
        ConvergesEmptyInRoundOne

\* Two reviewers and two configured rounds: the run returned after round 1.
C35_Witness ==
    /\ config.agents = << "reviewer", "reviewer" >>
    /\ config.rounds = 2
    /\ pc = "done"
    /\ result = [status |-> "converged", artifacts |-> << >>]
    /\ current_round = 1

\* C36: every duration _call_llm passes to time.sleep is non-negative,
\* whatever headers the rate-limit failure carries.
C36_SleepNonNegative ==
    InSleepCall => llm.delay >= 0

C38_ArtifactIndexIsPosition ==
    [][(Len(reviews') = Len(reviews) + 1 /\ round_history' # round_history) =>
          LET logged == Last(Last(round_history').interactions)
          IN  /\ logged.phase = "review"
              /\ logged.artifact_index = Last(reviews').about]_vars

\* C39: in every transcript _auto_save wrote, rounds_completed is the round
\* number of the last round record it contains (0 when it contains none),
\* after a run that returned and after a run that failed in mid-round.
C39_RoundsCompletedIsLastRecord ==
    disk.written =>
        disk.rounds_completed =
            IF disk.round_history = << >> THEN 0
            ELSE Last(disk.round_history).round

\* C40: the final status in summary.txt matches how the run ended:
\* "Converged" only for a run that ended converged, "Max rounds reached" only
\* for one that ended at the round limit, and neither for a run that failed.
C40_FinalStatusMatchesOutcome ==
    disk.written =>
        /\ disk.final_status = "Converged" =>
              pc = "done" /\ result.status = "converged"
        /\ disk.final_status = "Max rounds reached" =>
              pc = "done" /\ result.status = "max_rounds_reached"
        /\ pc = "raised" => disk.final_status = "none"

====
